---- MODULE Spec2Model ----
(***************************************************************************)
(* Model of geofront's provider backends: the GitHub (stateless, OAuth2)   *)
(* and Bitbucket Server / Stash (stateful, OAuth1.0a) implementations of   *)
(* Team and KeyStore, src/geofront/backends/github.py and stash.py.        *)
(*                                                                         *)
(* Five specifications share the variables:                                *)
(*   Spec        the KeyStore operations against one remote key listing    *)
(*   SpecTeam    the authentication handshake and authorize                *)
(*   SpecRace    a paginated listing, page by page, with calls in between  *)
(*   SpecShared  two callers in authenticate on one shared Team instance   *)
(*   SpecIO      the operations of both interfaces, KeyStore or Team       *)
(*                                                                         *)
(* Strings whose structure matters (URLs, identifiers) are sequences of    *)
(* characters/chunks, so that rstrip and startswith are computed.          *)
(***************************************************************************)
EXTENDS Integers, Sequences, FiniteSets, TLC

VARIABLES backend, pageSize, remote, last, hs, auth,
          cont, streams, used, scan, team, calls

vars == <<backend, pageSize, remote, last, hs, auth,
          cont, streams, used, scan, team, calls>>

\* what the handshake actions, the listing in progress and the shared
\* instance keep, for the actions that leave them alone
teamVars == <<hs, auth, cont, streams, used>>
raceVars == <<scan>>
sharedVars == <<team, calls>>

(***************************************************************************)
(* Bounds of the model.                                                    *)
(***************************************************************************)
\* most entries on file for the principal at the provider
MaxEntries == 3
\* the provider's page limit is one of 1..MaxPageSize
MaxPageSize == 2
\* most Identities one continuation is let to produce
MaxIdentities == 2

Min(a, b) == IF a <= b THEN a ELSE b

(***************************************************************************)
(* Strings as sequences.                                                   *)
(***************************************************************************)
\* str.startswith
StartsWith(s, prefix) ==
    /\ Len(prefix) <= Len(s)
    /\ SubSeq(s, 1, Len(prefix)) = prefix

\* str.rstrip('/'): drops every trailing slash
RStripSlash(s) ==
    LET keep == {n \in 0..Len(s) : \A i \in (n + 1)..Len(s) : s[i] = "/"}
        n == CHOOSE m \in keep : \A k \in keep : m <= k
    IN  SubSeq(s, 1, n)

(***************************************************************************)
(* Classes of the Team hierarchy and the Python type tests the code uses.  *)
(***************************************************************************)
\* issubclass(cls, base)
IsSubclass(cls, base) == cls = base \/ base = "Team"

\* isinstance(obj, cls) where class_of is type(obj)
IsInstance(class_of, cls) == IsSubclass(class_of, cls)

(***************************************************************************)
(* The configured StashTeam: StashTeam(server_url, consumer_key, rsa_key). *)
(***************************************************************************)
\* the server_url argument of the constructor, given with a trailing slash
ConfiguredServerUrl == <<"h", "1", "/">>

\* self.server_url = server_url.rstrip('/')
server_url == RStripSlash(ConfiguredServerUrl)

\* the server URL of another installation
OtherServerUrl == <<"h", "2">>

\* a profile URL that leaves the server URL out
USER_PROFILE_URL_Relative(url, whoami) == <<"users", "/">> \o whoami

\* USER_PROFILE_URL = '{0.server_url}/users/{1}'
USER_PROFILE_URL(url, whoami) == url \o <<"/", "users", "/">> \o whoami

\* the configured GitHubOrganization's org_login
org_login == "spoqa"

(***************************************************************************)
(* Identity(team_type, identifier, access_token).  access_token is a str   *)
(* for GitHub and a (token, secret) pair for Stash.                        *)
(***************************************************************************)
StrToken(t) == [shape |-> "str", token |-> t, secret |-> "-"]
PairToken(t, s) == [shape |-> "pair", token |-> t, secret |-> s]

Identity(team_type, identifier, access_token) ==
    [team_type |-> team_type, identifier |-> identifier,
     access_token |-> access_token]

NoIdentity == Identity("none", <<>>, StrToken("-"))

GitHubIdentity == Identity("GitHubOrganization", <<"alice">>, StrToken("gh-token"))

StashIdentityAt(url) ==
    Identity("StashTeam", USER_PROFILE_URL(url, <<"alice">>),
             PairToken("access-token", "access-secret"))

\* the identities callers present to a KeyStore
StoreIdentities ==
    {GitHubIdentity, StashIdentityAt(server_url), StashIdentityAt(OtherServerUrl)}

(***************************************************************************)
(* Public keys and their one-line text form.  geofront.keystore is not     *)
(* part of the two backend files; keys follow the data model: fields       *)
(* (algorithm, material, comment), equality over (algorithm, material).    *)
(***************************************************************************)
Algorithms == {"ssh-rsa", "ssh-dss"}
Materials == {"AAAA"}
Comments == {"home", "work"}

PublicKey(keytype, material, comment) ==
    [keytype |-> keytype, material |-> material, comment |-> comment]

PublicKeys ==
    {PublicKey(a, m, c) : a \in Algorithms, m \in Materials, c \in Comments}

NoKey == PublicKey("none", "none", "none")

\* PublicKey.__eq__ / PKey.__eq__: the comment takes no part
KeyEq(a, b) == a.keytype = b.keytype /\ a.material = b.material

\* what a Python set keeps apart: keys hash and compare by this pair
KeyId(k) == <<k.keytype, k.material>>

\* str(public_key) / format_openssh_pubkey: "<keytype> <material> <comment>"
FormatKey(k) == <<k.keytype, k.material, k.comment>>

\* stored texts no parser accepts
GarbageTexts == {<<"garbage">>, <<"ssh-rsa">>}

WellFormed(text) == Len(text) = 3 /\ text[1] \in Algorithms

\* PublicKey.parse_line / parse_openssh_pubkey; raises unless WellFormed
ParseLine(text) == PublicKey(text[1], text[2], text[3])

Texts == {FormatKey(k) : k \in PublicKeys} \cup GarbageTexts

(***************************************************************************)
(* The provider's side of the REST surface: the principal's key listing is *)
(* a sequence of entries {id, key|text}.                                   *)
(***************************************************************************)
Entry(id, text) == [id |-> id, text |-> text]

EntryIds(rem) == {rem[i].id : i \in 1..Len(rem)}

\* the provider refuses a key whose (algorithm, material) is on file
OnFile(rem, k) ==
    \E i \in 1..Len(rem) :
        WellFormed(rem[i].text) /\ KeyEq(ParseLine(rem[i].text), k)

FreshId(rem) ==
    CHOOSE n \in 1..(Len(rem) + 1) :
        /\ n \notin EntryIds(rem)
        /\ \A m \in 1..(Len(rem) + 1) : m \notin EntryIds(rem) => n <= m

\* POST keys: 201 and the entry is appended, or a conflict status
ProviderCreate(rem, text, conflict) ==
    IF WellFormed(text) /\ ~OnFile(rem, ParseLine(text))
    THEN [status |-> 201, remote |-> Append(rem, Entry(FreshId(rem), text))]
    ELSE [status |-> conflict, remote |-> rem]

\* DELETE keys/{id}
ProviderDelete(rem, id) ==
    SelectSeq(rem, LAMBDA e : e.id # id)

\* GET keys?start={start} of the paginated provider, page limit ps
ProviderPage(rem, ps, start) ==
    [values |-> SubSeq(rem, start + 1, Min(start + ps, Len(rem))),
     isLastPage |-> start + ps >= Len(rem),
     nextPageStart |-> start + ps]

(***************************************************************************)
(* What one KeyStore call did: how it ended, what it returned, the         *)
(* requests it issued in order, and the listing it left at the provider.   *)
(***************************************************************************)
Req(method, url, arg) == [method |-> method, url |-> url, arg |-> arg]

Run(outcome, result, requests, rem) ==
    [outcome |-> outcome, result |-> result, requests |-> requests,
     remote |-> rem]

\* a call that sends the unanswered request a second time and goes on
WithNetworkFailure_Retried(run, pre, failAt) ==
    IF failAt \in 1..Len(run.requests)
    THEN Run(run.outcome, run.result,
             SubSeq(run.requests, 1, failAt)
                 \o SubSeq(run.requests, failAt, Len(run.requests)),
             run.remote)
    ELSE run

\* urllib.request.urlopen raising URLError (an IOError) at the failAt-th
\* round trip of the call; failAt = 0 when every round trip is answered
WithNetworkFailure(run, pre, failAt) ==
    IF failAt \in 1..Len(run.requests)
    THEN Run("IOError", {}, SubSeq(run.requests, 1, failAt), pre)
    ELSE run

\* the first entry, in listing order, at which a scan for key stops: one
\* that does not parse (the parse raises) or one equal to key; 0 if none
FirstStop(entries, key) ==
    LET stops == {i \in 1..Len(entries) :
                     \/ ~WellFormed(entries[i].text)
                     \/ KeyEq(ParseLine(entries[i].text), key)}
    IN  IF stops = {} THEN 0
        ELSE CHOOSE i \in stops : \A j \in stops : i <= j

(***************************************************************************)
(* GitHubKeyStore (github.py).  Every call goes through request(), which   *)
(* builds the header 'token ' + access_token before it opens a connection. *)
(***************************************************************************)
\* 'token ' + access_token is a str concatenation: TypeError for a pair
TokenIsStr(identity) == identity.access_token.shape = "str"

GitHubKeyStore_register(identity, public_key, rem) ==
    IF ~TokenIsStr(identity) THEN Run("TypeError", {}, <<>>, rem)
    ELSE LET resp == ProviderCreate(rem, FormatKey(public_key), 422)
             reqs == <<Req("POST", "keys", 0)>>
         IN  IF resp.status = 201
             THEN Run("return", {}, reqs, resp.remote)
             ELSE Run("HTTPError", {}, reqs, rem)

GitHubKeyStore_list_keys(identity, rem) ==
    IF ~TokenIsStr(identity) THEN Run("TypeError", {}, <<>>, rem)
    ELSE LET reqs == <<Req("GET", "keys", 0)>>
         IN  IF \E i \in 1..Len(rem) : ~WellFormed(rem[i].text)
             THEN Run("ParseError", {}, reqs, rem)
             ELSE Run("return",
                      {KeyId(ParseLine(rem[i].text)) : i \in 1..Len(rem)},
                      reqs, rem)

GitHubKeyStore_deregister(identity, public_key, rem) ==
    IF ~TokenIsStr(identity) THEN Run("TypeError", {}, <<>>, rem)
    ELSE LET reqs == <<Req("GET", "keys", 0)>>
             k == FirstStop(rem, public_key)
         IN  IF k = 0 THEN Run("return", {}, reqs, rem)
             ELSE IF ~WellFormed(rem[k].text)
             THEN Run("ParseError", {}, reqs, rem)
             ELSE Run("return", {},
                      Append(reqs, Req("DELETE", "keys/id", rem[k].id)),
                      ProviderDelete(rem, rem[k].id))

(***************************************************************************)
(* StashKeyStore (stash.py).                                               *)
(***************************************************************************)
\* the attributes of a StashKeyStore (set by __init__)
StashKeyStoreAttrs == {"team"}

\* '{0.server_url}/...'.format(obj): AttributeError unless obj has server_url
FormatServerUrl(attrs) ==
    IF "server_url" \in attrs THEN "url" ELSE "AttributeError"

\* self.DEREGISTER_URL(self, key['id']): DEREGISTER_URL is a str, and a str
\* is not callable
CallDeregisterUrl == "TypeError"

\* the guard of request_list and register
Compatible(identity) ==
    /\ IsInstance("StashTeam", identity.team_type)
    /\ StartsWith(identity.identifier, server_url)

\* a cursor advanced by an assumed page size of two
NextStart_AssumedPageSize(start, payload) == start + 2

\* start = payload['nextPageStart']
NextStart(start, payload) == payload.nextPageStart

\* the pages request_list fetches when it is drained, in order
RECURSIVE Pages(_, _, _)
Pages(rem, ps, start) ==
    LET payload == ProviderPage(rem, ps, start)
        this == <<[start |-> start, payload |-> payload]>>
    IN  IF payload.isLastPage THEN this
        ELSE this \o Pages(rem, ps, NextStart(start, payload))

request_list(identity, rem, ps) ==
    IF ~Compatible(identity) THEN <<>> ELSE Pages(rem, ps, 0)

\* yield from payload['values'], page after page
RECURSIVE Yielded(_)
Yielded(pages) ==
    IF pages = <<>> THEN <<>>
    ELSE Head(pages).payload.values \o Yielded(Tail(pages))

\* request_list is a generator: the pages fetched by the time its k-th
\* entry has been yielded
PagesFetched(pages, k) ==
    CHOOSE j \in 1..Len(pages) :
        /\ Len(Yielded(SubSeq(pages, 1, j))) >= k
        /\ \A i \in 1..(j - 1) : Len(Yielded(SubSeq(pages, 1, i))) < k

ListRequests(pages) ==
    [i \in 1..Len(pages) |-> Req("GET", "keys?start", pages[i].start)]

StashKeyStore_register(identity, public_key, rem) ==
    IF ~Compatible(identity) THEN Run("return", {}, <<>>, rem)
    ELSE IF FormatServerUrl(StashKeyStoreAttrs) = "AttributeError"
    THEN Run("AttributeError", {}, <<>>, rem)
    ELSE LET resp == ProviderCreate(rem, FormatKey(public_key), 409)
             reqs == <<Req("POST", "keys", 0)>>
         IN  IF resp.status = 201 THEN Run("return", {}, reqs, resp.remote)
             ELSE IF resp.status = 409
             THEN Run("DuplicatePublicKeyError", {}, reqs, rem)
             ELSE Run("HTTPError", {}, reqs, rem)

StashKeyStore_list_keys(identity, rem, ps) ==
    LET pages == request_list(identity, rem, ps)
        keys == Yielded(pages)
    IN  Run("return",
            {KeyId(ParseLine(keys[i].text)) :
                i \in {j \in 1..Len(keys) : WellFormed(keys[j].text)}},
            ListRequests(pages), rem)

StashKeyStore_deregister(identity, public_key, rem, ps) ==
    LET pages == request_list(identity, rem, ps)
        keys == Yielded(pages)
        k == FirstStop(keys, public_key)
        reqs == IF k = 0 THEN ListRequests(pages)
                ELSE ListRequests(SubSeq(pages, 1, PagesFetched(pages, k)))
    IN  IF k = 0 THEN Run("return", {}, reqs, rem)
        ELSE IF ~WellFormed(keys[k].text)
        THEN Run("ParseError", {}, reqs, rem)
        ELSE IF CallDeregisterUrl = "TypeError"
        THEN Run("TypeError", {}, reqs, rem)
        ELSE Run("return", {},
                 Append(reqs, Req("DELETE", "keys/id", keys[k].id)),
                 ProviderDelete(rem, keys[k].id))

(***************************************************************************)
(* The KeyStore calls as steps.  last records the latest call, with the     *)
(* provider's listing before it (pre) and after it (post).                 *)
(***************************************************************************)
Call(op, identity, key, failAt, pre, run) ==
    [op |-> op, identity |-> identity, key |-> key, failAt |-> failAt,
     outcome |-> run.outcome, result |-> run.result,
     requests |-> run.requests, pre |-> pre, post |-> run.remote]

NoCall == Call("none", NoIdentity, NoKey, 0, <<>>, Run("none", {}, <<>>, <<>>))

\* failAt: which round trip of the call gets no answer (0: none does)
Step(op, identity, key, run0) ==
    \E failAt \in 0..Len(run0.requests) :
        LET run == WithNetworkFailure(run0, remote, failAt)
        IN  /\ Len(run.remote) <= MaxEntries
            /\ remote' = run.remote
            /\ last' = Call(op, identity, key, failAt, remote, run)
            /\ UNCHANGED <<backend, pageSize, teamVars, raceVars, sharedVars>>

Register(identity, public_key) ==
    Step("register", identity, public_key,
         IF backend = "github"
         THEN GitHubKeyStore_register(identity, public_key, remote)
         ELSE StashKeyStore_register(identity, public_key, remote))

ListKeys(identity) ==
    Step("list_keys", identity, NoKey,
         IF backend = "github"
         THEN GitHubKeyStore_list_keys(identity, remote)
         ELSE StashKeyStore_list_keys(identity, remote, pageSize))

Deregister(identity, public_key) ==
    Step("deregister", identity, public_key,
         IF backend = "github"
         THEN GitHubKeyStore_deregister(identity, public_key, remote)
         ELSE StashKeyStore_deregister(identity, public_key, remote, pageSize))

\* another client of the provider (its web interface) files an entry:
\* a new key, or a text the parser does not accept
ProviderFilesEntry(text) ==
    /\ Len(remote) < MaxEntries
    /\ \A i \in 1..Len(remote) : remote[i].text # text
    /\ WellFormed(text) => ~OnFile(remote, ParseLine(text))
    /\ remote' = Append(remote, Entry(FreshId(remote), text))
    /\ UNCHANGED <<backend, pageSize, last, teamVars, raceVars, sharedVars>>

(***************************************************************************)
(* Team: the handshake.  What the provider answers to each round trip is   *)
(* an input of the call (env); a round trip the call never reaches leaves  *)
(* its answer unused.                                                      *)
(***************************************************************************)
Missing == "missing"

\* anti-forgery nonces the caller issues; request tokens the provider issues
Nonces == {"n1", "n2"}
RequestTokens == {"rt1", "rt2"}
SecretOf(token) == IF token = "rt1" THEN "rs1" ELSE "rs2"

\* the parameters of the provider's callback (req.args)
GitHubCallbacks ==
    [code : {"good-code", "bad-code", Missing},
     state : Nonces \cup {Missing},
     oauth_token : {Missing}]

StashCallbacks ==
    [code : {Missing}, state : {Missing},
     oauth_token : RequestTokens \cup {Missing}]

\* GET user/orgs answers: no answer (URLError), a body that is not JSON,
\* a JSON object with an 'error' member, or a JSON array of organizations
OrgsAnswers ==
    {[kind |-> k, logins |-> {}] : k \in {"ioerror", "not_json", "error"}}
        \cup {[kind |-> "list", logins |-> l] : l \in SUBSET {org_login, "other"}}

\* token endpoint answers: a token (form-encoded or JSON), a body without
\* access_token, an unsupported content type, no answer, and a body
\* announced as JSON that json.load rejects
ExchangeAnswers ==
    {"form", "json", "no_token", "unsupported", "ioerror", "malformed"}

\* profile / whoami answers: answered, or no answer
ProfileAnswers == {"ok", "ioerror"}

\* request() also asserts that the profile answer is application/json
GitHubEnvs ==
    [xchg : ExchangeAnswers, profile : ProfileAnswers \cup {"not_json"},
     orgs : OrgsAnswers]

\* StashTeam.authenticate makes no membership round trip
StashEnvs ==
    [xchg : ExchangeAnswers, profile : ProfileAnswers,
     orgs : {[kind |-> "ioerror", logins |-> {}]}]

Result(outcome, identity, requests) ==
    [outcome |-> outcome, identity |-> identity, requests |-> requests]

Answer(result, raised, requests) ==
    [result |-> result, raised |-> raised, requests |-> requests]

\* authorize without its 'except IOError': the failure propagates
OrgsIOError_Propagates(reqs) == Answer(FALSE, "IOError", reqs)

\* authorize's 'except IOError: return False' around request()
OrgsIOError(reqs) == Answer(FALSE, "none", reqs)

\* GitHubOrganization.authorize: what it returns or raises, and its requests
GitHubOrganization_authorize(identity, orgs) ==
    LET reqs == <<"GET user/orgs">>
    IN  IF ~IsSubclass(identity.team_type, "GitHubOrganization")
        THEN Answer(FALSE, "none", <<>>)
        ELSE IF ~TokenIsStr(identity) THEN Answer(FALSE, "TypeError", <<>>)
        ELSE IF orgs.kind = "ioerror" THEN OrgsIOError(reqs)
        ELSE IF orgs.kind = "not_json"
        THEN Answer(FALSE, "AssertionError", reqs)
        ELSE IF orgs.kind = "error" THEN Answer(FALSE, "none", reqs)
        ELSE Answer(org_login \in orgs.logins, "none", reqs)

\* authorize without the test of the identity's team type
StashTeam_authorize_PrefixOnly(identity) ==
    [result |-> StartsWith(identity.identifier, server_url),
     raised |-> "none", requests |-> <<>>]

\* StashTeam.authorize: a structural check, no request
StashTeam_authorize(identity) ==
    [result |-> /\ IsSubclass(identity.team_type, "StashTeam")
                /\ StartsWith(identity.identifier, server_url),
     raised |-> "none", requests |-> <<>>]

\* authenticate without the comparison of the callback's state to the nonce
GitHubCallbackValid_NoStateCheck(auth_nonce, cb) ==
    /\ cb.code # Missing
    /\ cb.state # Missing

\* code = req.args['code']; req.args['state'] != auth_nonce; KeyError
GitHubCallbackValid(auth_nonce, cb) ==
    /\ cb.code # Missing
    /\ cb.state # Missing
    /\ cb.state = auth_nonce

\* GitHubOrganization.authenticate(auth_nonce, requested_redirect_url, environ)
GitHubOrganization_authenticate(auth_nonce, cb, env) ==
    LET post == <<"POST login/oauth/access_token">>
        user == post \o <<"GET user">>
        identity == Identity("GitHubOrganization", <<"alice">>,
                             StrToken("gh-token"))
        az == GitHubOrganization_authorize(identity, env.orgs)
    IN  IF ~GitHubCallbackValid(auth_nonce, cb)
        THEN Result("AuthenticationError", NoIdentity, <<>>)
        ELSE IF env.xchg = "ioerror" THEN Result("IOError", NoIdentity, post)
        ELSE IF env.xchg = "unsupported"
        THEN Result("AuthenticationError", NoIdentity, post)
        ELSE IF env.xchg = "malformed" THEN Result("ValueError", NoIdentity, post)
        ELSE IF env.xchg = "no_token" THEN Result("KeyError", NoIdentity, post)
        ELSE IF env.profile = "ioerror" THEN Result("IOError", NoIdentity, user)
        ELSE IF env.profile = "not_json"
        THEN Result("AssertionError", NoIdentity, user)
        ELSE IF az.raised # "none"
        THEN Result(az.raised, NoIdentity, user \o az.requests)
        ELSE IF az.result THEN Result("return", identity, user \o az.requests)
        ELSE Result("AuthenticationError", NoIdentity, user \o az.requests)

\* a state that is no sequence at all (None): the session lost it
NoneState == <<"None">>

\* oauth_token, oauth_token_secret = state: ValueError for a sequence of
\* another length, TypeError for a value that cannot be unpacked
Unpack(state) ==
    IF state = NoneState THEN "TypeError"
    ELSE IF Len(state) = 2 THEN "ok"
    ELSE "ValueError"

\* authenticate without the comparison of the callback's oauth_token
StashCallbackValid_NoTokenCheck(state, cb) == Len(state) = 2

\* oauth_token, oauth_token_secret = state (ValueError unless two elements);
\* req.args.get('oauth_token') != oauth_token
StashCallbackValid(state, cb) ==
    /\ Len(state) = 2
    /\ cb.oauth_token = state[1]

\* an authenticate that compares the callback's token only after it has
\* sent the access-token request
StashTeam_authenticate_ExchangeFirst(state, cb, env) ==
    LET post == <<"POST oauth/access-token">>
        whoami == post \o <<"GET applinks/whoami">>
    IN  IF Unpack(state) = "TypeError"
        THEN Result("TypeError", NoIdentity, <<>>)
        ELSE IF Unpack(state) = "ValueError"
        THEN Result("AuthenticationError", NoIdentity, <<>>)
        ELSE IF env.xchg = "ioerror" THEN Result("IOError", NoIdentity, post)
        ELSE IF ~StashCallbackValid(state, cb)
        THEN Result("AuthenticationError", NoIdentity, post)
        ELSE IF env.xchg # "form" THEN Result("KeyError", NoIdentity, post)
        ELSE IF env.profile = "ioerror"
        THEN Result("IOError", NoIdentity, whoami)
        ELSE Result("return",
                    Identity("StashTeam",
                             USER_PROFILE_URL(server_url, <<"alice">>),
                             PairToken("access-token", "access-secret")),
                    whoami)

\* StashTeam.authenticate(state, requested_redirect_url, wsgi_environ).  The
\* access-token answer is read with url_decode_stream whatever its content
\* type: only a form-encoded body yields oauth_token and oauth_token_secret.
StashTeam_authenticate(state, cb, env) ==
    LET post == <<"POST oauth/access-token">>
        whoami == post \o <<"GET applinks/whoami">>
    IN  IF Unpack(state) = "TypeError"
        THEN Result("TypeError", NoIdentity, <<>>)
        ELSE IF ~StashCallbackValid(state, cb)
        THEN Result("AuthenticationError", NoIdentity, <<>>)
        ELSE IF env.xchg = "ioerror" THEN Result("IOError", NoIdentity, post)
        ELSE IF env.xchg # "form" THEN Result("KeyError", NoIdentity, post)
        ELSE IF env.profile = "ioerror"
        THEN Result("IOError", NoIdentity, whoami)
        ELSE Result("return",
                    Identity("StashTeam",
                             USER_PROFILE_URL(server_url, <<"alice">>),
                             PairToken("access-token", "access-secret")),
                    whoami)

\* the token endpoint's answers that carry an access token
TokenAnswers == IF backend = "github" THEN {"form", "json"} ELSE {"form"}

(***************************************************************************)
(* Response streams.  urlopen hands back an open response; the count is    *)
(* of the responses a call opened and had not closed when it returned or   *)
(* raised.  github.request() wraps its response in contextlib.closing.     *)
(***************************************************************************)
\* authenticate closes the token response in both branches that follow the
\* decoding, so it stays open only when the decoding itself raises
GitHubOrganization_authenticate_open(auth_nonce, cb, env) ==
    IF GitHubCallbackValid(auth_nonce, cb) /\ env.xchg = "malformed"
    THEN 1 ELSE 0

\* the access-token response is closed after decoding; the whoami response
\* is read and never closed
StashTeam_authenticate_open(state, cb, env) ==
    IF /\ Unpack(state) = "ok"
       /\ StashCallbackValid(state, cb)
       /\ env.xchg = "form"
       /\ env.profile # "ioerror"
    THEN 1 ELSE 0

\* request_authentication closes the request-token response after decoding
StashTeam_request_authentication_open == 0

(***************************************************************************)
(* The continuation request_authentication hands to the caller.            *)
(***************************************************************************)
AuthenticationContinuation(next_url, state) ==
    [next_url |-> next_url, state |-> state]

NoContinuation == AuthenticationContinuation(<<>>, <<>>)

\* an authorize URL that leaves the request token out
AuthorizeUrl_NoToken(oauth_token) ==
    server_url \o <<"/plugins/servlet/oauth/authorize", "?oauth_token=", Missing>>

\* AUTHORIZE_URL.format(self) + '?' + url_encode({'oauth_token': ...})
AuthorizeUrl(oauth_token) ==
    server_url \o <<"/plugins/servlet/oauth/authorize", "?oauth_token=", oauth_token>>

\* '{}?{}'.format(AUTHORIZE_URL, query) with 'state': auth_nonce
GitHubAuthorizeUrl(auth_nonce) ==
    <<"https://github.com/login/oauth/authorize", "?state=", auth_nonce>>

\* the value of the last query parameter of an authorize URL
UrlParameter(url) == url[Len(url)]

(***************************************************************************)
(* The caller's session (hs), the latest Team call (auth), the latest      *)
(* continuation (cont), the streams the latest Team call left open         *)
(* (streams) and the use made of the continuation (used).                  *)
(***************************************************************************)
Session(phase, state, identity) ==
    [phase |-> phase, state |-> state, identity |-> identity]

TeamCall(op, state, cb, env, res) ==
    [op |-> op, state |-> state, cb |-> cb, env |-> env,
     outcome |-> res.outcome, identity |-> res.identity,
     requests |-> res.requests]

NoCallback == [code |-> Missing, state |-> Missing, oauth_token |-> Missing]
NoEnv == [xchg |-> "ioerror", profile |-> "ioerror",
          orgs |-> [kind |-> "ioerror", logins |-> {}]]
NoTeamCall ==
    TeamCall("none", <<>>, NoCallback, NoEnv, Result("none", NoIdentity, <<>>))

\* the state and callback that produced an Identity, how many Identities
\* they have produced, and whether the latest authenticate presented them
\* again
Use(state, cb, identities, again) ==
    [state |-> state, cb |-> cb, identities |-> identities, again |-> again]

NoUse == Use(<<>>, NoCallback, 0, FALSE)

\* a record, kept by the Team, of the states that produced an Identity
Consumed_Remembered(state, cb) ==
    used.identities >= 1 /\ used.state = state /\ used.cb = cb

\* authenticate looks its state up nowhere: the Team keeps no record of the
\* states it has seen
Consumed(state, cb) == FALSE

\* GitHubOrganization.request_authentication(auth_nonce, redirect_url): builds
\* the authorize URL around the caller's nonce; no round trip
GitHubRequestAuthentication(nonce) ==
    /\ backend = "github"
    /\ hs.phase # "AwaitingCallback"
    /\ hs' = Session("AwaitingCallback", <<nonce>>, NoIdentity)
    /\ auth' = TeamCall("request_authentication", <<nonce>>, NoCallback, NoEnv,
                        Result("return", NoIdentity, <<>>))
    /\ cont' = AuthenticationContinuation(GitHubAuthorizeUrl(nonce), <<>>)
    /\ streams' = 0
    /\ used' = NoUse
    /\ UNCHANGED <<backend, pageSize, remote, last, raceVars, sharedVars>>

\* StashTeam.request_authentication(redirect_url): the signed request-token
\* round trip, then the continuation (authorize URL, (token, secret))
StashRequestAuthentication(token, answered) ==
    /\ backend = "stash"
    /\ hs.phase \in {"Unauthenticated", "Authenticated"}
    /\ LET reqs == <<"POST oauth/request-token">>
           state == <<token, SecretOf(token)>>
       IN  IF answered
           THEN /\ hs' = Session("RequestTokenIssued", state, NoIdentity)
                /\ auth' = TeamCall("request_authentication", state, NoCallback,
                                    NoEnv, Result("return", NoIdentity, reqs))
                /\ cont' = AuthenticationContinuation(AuthorizeUrl(token), state)
           ELSE /\ hs' = Session("Unauthenticated", <<>>, NoIdentity)
                /\ auth' = TeamCall("request_authentication", <<>>, NoCallback,
                                    NoEnv, Result("IOError", NoIdentity, reqs))
                /\ cont' = NoContinuation
    /\ streams' = StashTeam_request_authentication_open
    /\ used' = NoUse
    /\ UNCHANGED <<backend, pageSize, remote, last, raceVars, sharedVars>>

\* the caller keeps the continuation's state in the session and redirects
\* the browser to the authorize URL
Redirect ==
    /\ hs.phase = "RequestTokenIssued"
    /\ hs' = [hs EXCEPT !.phase = "AwaitingCallback"]
    /\ UNCHANGED <<backend, pageSize, remote, last, auth, cont, streams, used,
                   raceVars, sharedVars>>

\* the states a caller may hand to authenticate: the one it kept, a pair
\* around another request token, the kept state cut short, and nothing
PresentedStates ==
    IF backend = "github" THEN {hs.state}
    ELSE {<<t, SecretOf(t)>> : t \in RequestTokens}
             \cup {<<hs.state[1]>>, NoneState}

\* one call of authenticate and what the caller makes of it
AuthenticateWith(state, cb, env, again) ==
    \* the provider hands a token only for the code it issued (GitHub),
    \* only for the request token it issued, signed with its secret (Stash)
    /\ env.xchg \in TokenAnswers =>
           IF backend = "github" THEN cb.code = "good-code"
           ELSE state = cont.state
    /\ LET res == IF Consumed(state, cb)
                  THEN Result("AuthenticationError", NoIdentity, <<>>)
                  ELSE IF backend = "github"
                  THEN GitHubOrganization_authenticate(state[1], cb, env)
                  ELSE StashTeam_authenticate(state, cb, env)
       IN  /\ auth' = TeamCall("authenticate", state, cb, env, res)
           /\ hs' = IF res.outcome = "return"
                    THEN Session("Authenticated", hs.state, res.identity)
                    ELSE Session("Unauthenticated", <<>>, NoIdentity)
           /\ used' = IF res.outcome = "return"
                      THEN Use(state, cb, IF again THEN used.identities + 1 ELSE 1,
                               again)
                      ELSE Use(state, cb, 0, again)
           /\ streams' = IF Consumed(state, cb) THEN 0
                         ELSE IF backend = "github"
                         THEN GitHubOrganization_authenticate_open(state[1], cb, env)
                         ELSE StashTeam_authenticate_open(state, cb, env)
    /\ cont' = cont
    /\ UNCHANGED <<backend, pageSize, remote, last, raceVars, sharedVars>>

\* the provider calls back and the caller invokes authenticate with the
\* state it kept (state) and the callback's parameters
Authenticate ==
    /\ hs.phase = "AwaitingCallback"
    /\ \E state \in PresentedStates,
          cb \in IF backend = "github" THEN GitHubCallbacks ELSE StashCallbacks,
          env \in IF backend = "github" THEN GitHubEnvs ELSE StashEnvs :
        AuthenticateWith(state, cb, env, FALSE)

\* authenticate is called once more with the state and the callback that
\* have already produced an Identity
AuthenticateAgain ==
    /\ hs.phase = "Authenticated"
    /\ used.identities \in 1..(MaxIdentities - 1)
    /\ \E env \in IF backend = "github" THEN GitHubEnvs ELSE StashEnvs :
        AuthenticateWith(used.state, used.cb, env, TRUE)

\* Team.authorize(identity) on its own
Authorize(identity, orgs) ==
    /\ LET az == IF backend = "github"
                 THEN GitHubOrganization_authorize(identity, orgs)
                 ELSE StashTeam_authorize(identity)
       IN  auth' = [TeamCall("authorize", <<>>, NoCallback,
                             [NoEnv EXCEPT !.orgs = orgs],
                             Result(IF az.raised # "none" THEN az.raised
                                    ELSE IF az.result THEN "True" ELSE "False",
                                    identity, az.requests))
                    EXCEPT !.identity = identity]
    /\ streams' = 0
    /\ UNCHANGED <<backend, pageSize, remote, last, hs, cont, used,
                   raceVars, sharedVars>>

(***************************************************************************)
(* A paginated listing taken page by page.  request_list is suspended at   *)
(* each round trip, and nothing in this layer keeps other calls for the    *)
(* same principal from running in between.  scan is the listing in         *)
(* progress: its cursor, the keys it has collected (got), the keys that    *)
(* have been on file ever since it began (kept), and what ran in between.  *)
(***************************************************************************)
Scan(phase, identity, start, got, kept, pages, between, raced, removed) ==
    [phase |-> phase, identity |-> identity, start |-> start, got |-> got,
     kept |-> kept, pages |-> pages, between |-> between, raced |-> raced,
     removed |-> removed]

NoScan == Scan("idle", NoIdentity, 0, {}, {}, 0, "none", FALSE, FALSE)

\* the keys of the well-formed entries of a listing
KeysOnFile(rem) ==
    {KeyId(ParseLine(rem[i].text)) :
        i \in {j \in 1..Len(rem) : WellFormed(rem[j].text)}}

\* list_keys calls request_list(identity); the guard has passed
ListBegin(identity) ==
    /\ backend = "stash"
    /\ scan.phase = "idle"
    /\ Compatible(identity)
    /\ scan' = Scan("listing", identity, 0, {}, KeysOnFile(remote), 0,
                    "none", FALSE, FALSE)
    /\ UNCHANGED <<backend, pageSize, remote, last, teamVars, sharedVars>>

\* one round trip of request_list and the loop of list_keys over its values
ListPage ==
    /\ scan.phase = "listing"
    /\ LET payload == ProviderPage(remote, pageSize, scan.start)
       IN  scan' = [scan EXCEPT
                       !.got = @ \cup KeysOnFile(payload.values),
                       !.pages = @ + 1,
                       !.start = IF payload.isLastPage THEN @
                                 ELSE NextStart(@, payload),
                       !.phase = IF payload.isLastPage THEN "done" ELSE @]
    /\ UNCHANGED <<backend, pageSize, remote, last, teamVars, sharedVars>>

\* the entry just beyond the cursor is a key on file since the listing began
KeyBeyondCursor ==
    /\ scan.start + 1 <= Len(remote)
    /\ WellFormed(remote[scan.start + 1].text)
    /\ KeyId(ParseLine(remote[scan.start + 1].text)) \in scan.kept

\* deregister(identity, public_key), start to end, between two page
\* requests of the listing; scan.between keeps how it ended
DeregisterBetween(identity, public_key) ==
    /\ scan.phase = "listing"
    /\ scan.pages >= 1
    /\ scan.between = "none"
    /\ LET run == StashKeyStore_deregister(identity, public_key, remote, pageSize)
           k == FirstStop(remote, public_key)
       IN  /\ remote' = run.remote
           /\ scan' = [scan EXCEPT
                          !.kept = @ \cap KeysOnFile(run.remote),
                          !.between = run.outcome,
                          \* the key's entry lies in the pages already listed
                          !.raced = /\ Compatible(identity)
                                    /\ k \in 1..scan.start
                                    /\ WellFormed(remote[k].text)
                                    /\ KeyBeyondCursor]
    /\ UNCHANGED <<backend, pageSize, last, teamVars, sharedVars>>

\* another client of the provider deletes an entry between two page
\* requests of the listing
ProviderRemovesEntry(id) ==
    /\ scan.phase = "listing"
    /\ scan.pages >= 1
    /\ id \in EntryIds(remote)
    /\ remote' = ProviderDelete(remote, id)
    /\ scan' = [scan EXCEPT !.kept = @ \cap KeysOnFile(remote'),
                            !.removed = TRUE]
    /\ UNCHANGED <<backend, pageSize, last, teamVars, sharedVars>>

(***************************************************************************)
(* Two callers inside authenticate on one shared Team instance.  A call is *)
(* suspended at each of its round trips; what it has read so far lives in  *)
(* the local variables of its own frame (calls[c]); team is the instance's *)
(* attributes.                                                             *)
(***************************************************************************)
Callers == {"c1", "c2"}

\* what the provider holds for each caller's principal
LoginOf(c) == IF c = "c1" THEN "alice" ELSE "bob"
TokenOf(c) == IF c = "c1" THEN "token-alice" ELSE "token-bob"
SecretOfToken(t) == IF t = "token-alice" THEN "secret-alice" ELSE "secret-bob"
\* the answer of the profile / whoami endpoint to a request made with token t
LoginOfToken(t) == IF t = "token-alice" THEN "alice" ELSE "bob"

\* the attributes __init__ sets
TeamConfig ==
    IF backend = "github"
    THEN [class |-> "GitHubOrganization", server_url |-> <<>>,
          client |-> "client_id", secret |-> "client_secret",
          org_login |-> org_login]
    ELSE [class |-> "StashTeam", server_url |-> server_url,
          client |-> "consumer_key", secret |-> "rsa_key", org_login |-> "-"]

\* a Team that keeps the token it has just received in an attribute
SelfAfterExchange_TokenKept(self, token) == [self EXCEPT !.secret = token]

\* no method other than __init__ assigns to an attribute of self
SelfAfterExchange(self, token) == self

Frame(pc, access_token, identity, outcome) ==
    [pc |-> pc, access_token |-> access_token, identity |-> identity,
     outcome |-> outcome]

NoFrame == Frame("idle", "-", NoIdentity, "none")

\* Identity(type(self), <identifier>, <access token>) as authenticate builds it
IdentityFor(self, token) ==
    IF self.class = "GitHubOrganization"
    THEN Identity(self.class, <<LoginOfToken(token)>>, StrToken(token))
    ELSE Identity(self.class,
                  USER_PROFILE_URL(self.server_url, <<LoginOfToken(token)>>),
                  PairToken(token, SecretOfToken(token)))

\* authenticate is entered and validates the callback against the state
BeginAuthenticate(c, valid) ==
    /\ calls[c].pc = "idle"
    /\ calls' = [calls EXCEPT ![c] =
                    IF valid THEN Frame("exchange", "-", NoIdentity, "none")
                    ELSE Frame("raised", "-", NoIdentity, "AuthenticationError")]
    /\ UNCHANGED <<backend, pageSize, remote, last, teamVars, raceVars, team>>

\* the token round trip of caller c's call is answered, or fails
Exchange(c, answered) ==
    /\ calls[c].pc = "exchange"
    /\ calls' = [calls EXCEPT ![c] =
                    IF answered THEN Frame("profile", TokenOf(c), NoIdentity, "none")
                    ELSE Frame("raised", "-", NoIdentity, "IOError")]
    /\ team' = IF answered THEN SelfAfterExchange(team, TokenOf(c)) ELSE team
    /\ UNCHANGED <<backend, pageSize, remote, last, teamVars, raceVars>>

\* the profile / whoami round trip, made with the token of the call's frame
Profile(c, answered) ==
    /\ calls[c].pc = "profile"
    /\ calls' = [calls EXCEPT ![c] =
                    IF ~answered
                    THEN Frame("raised", @.access_token, NoIdentity, "IOError")
                    ELSE Frame(IF backend = "github" THEN "membership"
                               ELSE "returned",
                               @.access_token,
                               IdentityFor(team, @.access_token),
                               IF backend = "github" THEN "none" ELSE "return")]
    /\ UNCHANGED <<backend, pageSize, remote, last, teamVars, raceVars, team>>

\* self.authorize(identity) at the end of GitHubOrganization.authenticate
Membership(c, orgs) ==
    /\ calls[c].pc = "membership"
    /\ LET az == GitHubOrganization_authorize(calls[c].identity, orgs)
       IN  calls' = [calls EXCEPT ![c] =
                        IF az.raised # "none"
                        THEN Frame("raised", @.access_token, NoIdentity, az.raised)
                        ELSE IF az.result
                        THEN Frame("returned", @.access_token, @.identity, "return")
                        ELSE Frame("raised", @.access_token, NoIdentity,
                                   "AuthenticationError")]
    /\ UNCHANGED <<backend, pageSize, remote, last, teamVars, raceVars, team>>

\* the caller takes the result; its frame is gone
Finish(c) ==
    /\ calls[c].pc \in {"returned", "raised"}
    /\ calls' = [calls EXCEPT ![c] = NoFrame]
    /\ UNCHANGED <<backend, pageSize, remote, last, teamVars, raceVars, team>>

(***************************************************************************)
(* Specifications.                                                         *)
(***************************************************************************)
Init ==
    /\ backend \in {"github", "stash"}
    /\ pageSize \in 1..MaxPageSize
    /\ backend = "github" => pageSize = 1
    /\ remote = <<>>
    /\ last = NoCall
    /\ hs = Session("Unauthenticated", <<>>, NoIdentity)
    /\ auth = NoTeamCall
    /\ cont = NoContinuation
    /\ streams = 0
    /\ used = NoUse
    /\ scan = NoScan
    /\ team = TeamConfig
    /\ calls = [c \in Callers |-> NoFrame]

Next ==
    \/ \E identity \in StoreIdentities, k \in PublicKeys : Register(identity, k)
    \/ \E identity \in StoreIdentities : ListKeys(identity)
    \/ \E identity \in StoreIdentities, k \in PublicKeys : Deregister(identity, k)
    \/ \E text \in Texts : ProviderFilesEntry(text)

Spec == Init /\ [][Next]_vars

\* the identities handed to authorize: those of the stores, one of another
\* Team class whose identifier lies under this server URL, and one of an
\* installation whose URL begins like this one's
TeamIdentities ==
    StoreIdentities
        \cup {Identity("GitHubOrganization",
                       USER_PROFILE_URL(server_url, <<"alice">>),
                       StrToken("gh-token")),
              StashIdentityAt(server_url \o <<"0">>)}

NextTeam ==
    \/ \E nonce \in Nonces : GitHubRequestAuthentication(nonce)
    \/ \E token \in RequestTokens, answered \in BOOLEAN :
          StashRequestAuthentication(token, answered)
    \/ Redirect
    \/ Authenticate
    \/ AuthenticateAgain
    \/ \E identity \in TeamIdentities, orgs \in OrgsAnswers :
          Authorize(identity, orgs)

SpecTeam == Init /\ [][NextTeam]_vars

NextRace ==
    \/ \E text \in Texts : ProviderFilesEntry(text)
    \/ \E identity \in StoreIdentities : ListBegin(identity)
    \/ ListPage
    \/ \E identity \in StoreIdentities, k \in PublicKeys :
          DeregisterBetween(identity, k)
    \/ \E id \in 1..MaxEntries : ProviderRemovesEntry(id)

SpecRace == Init /\ [][NextRace]_vars

NextShared ==
    \/ \E c \in Callers, valid \in BOOLEAN : BeginAuthenticate(c, valid)
    \/ \E c \in Callers, answered \in BOOLEAN : Exchange(c, answered)
    \/ \E c \in Callers, answered \in BOOLEAN : Profile(c, answered)
    \/ \E c \in Callers, orgs \in OrgsAnswers : Membership(c, orgs)
    \/ \E c \in Callers : Finish(c)

SpecShared == Init /\ [][NextShared]_vars

\* the identity the store's own Team produces
OwnIdentities ==
    IF backend = "github" THEN {GitHubIdentity}
    ELSE {StashIdentityAt(server_url)}

\* every operation of both interfaces; a behaviour exercises the KeyStore
\* or the Team
NextIO ==
    \/ /\ auth = NoTeamCall
       /\ \/ \E identity \in OwnIdentities, k \in PublicKeys :
                 Register(identity, k)
          \/ \E identity \in OwnIdentities : ListKeys(identity)
          \/ \E identity \in OwnIdentities, k \in PublicKeys :
                 Deregister(identity, k)
          \/ \E text \in Texts : ProviderFilesEntry(text)
    \/ /\ last = NoCall
       /\ remote = <<>>
       /\ NextTeam

SpecIO == Init /\ [][NextIO]_vars

(***************************************************************************)
(* Properties of the handshake (SpecTeam).                                 *)
(***************************************************************************)
\* the latest Team call is authenticate on backend b
AuthenticateCall(b) == backend = b /\ auth.op = "authenticate"

\* what authorize answers for the Identity the GitHub handshake builds
AuthorizeOfResult == GitHubOrganization_authorize(GitHubIdentity, auth.env.orgs)

\* C1 as stated: the stateless authenticate returns an Identity iff the
\* callback's state equals the issued nonce, the code-for-token exchange
\* succeeds and authorize returns true; when any of the three fails the
\* outcome is AuthenticationError and the handshake is Unauthenticated.
C1_AsStated ==
    AuthenticateCall("github") =>
        LET all == /\ auth.cb.state = auth.state[1]
                   /\ auth.env.xchg \in {"form", "json"}
                   /\ AuthorizeOfResult.raised = "none"
                   /\ AuthorizeOfResult.result
        IN  /\ auth.outcome = "return" <=> all
            /\ ~all => /\ auth.outcome = "AuthenticationError"
                       /\ hs.phase = "Unauthenticated"

\* C1 as amended: the stateless authenticate returns an Identity iff the
\* callback carries a code and a state equal to the issued nonce, the token
\* exchange answers with an access token, the profile fetch succeeds and
\* authorize returns true.  A callback that fails validation, an unsupported
\* content type and a false authorize end in AuthenticationError; an
\* unanswered exchange or profile round trip ends in IOError, a token answer
\* without access_token in KeyError, a profile answer that is not JSON in
\* AssertionError, and an exception of authorize propagates.  After every
\* failure the handshake is Unauthenticated.
C1_GitHubAuthenticate ==
    AuthenticateCall("github") =>
        LET valid == auth.cb.code # Missing /\ auth.cb.state = auth.state[1]
            xchg == auth.env.xchg
            fetched == xchg \in {"form", "json"} /\ auth.env.profile = "ok"
            az == AuthorizeOfResult
        IN  /\ auth.outcome = "return" <=>
                   (valid /\ fetched /\ az.raised = "none" /\ az.result)
            /\ auth.outcome = "return" =>
                   /\ hs.phase = "Authenticated"
                   /\ hs.identity = auth.identity
                   /\ auth.identity.team_type = "GitHubOrganization"
            /\ auth.outcome # "return" =>
                   /\ hs.phase = "Unauthenticated"
                   /\ auth.identity = NoIdentity
            /\ ~valid => auth.outcome = "AuthenticationError"
            /\ valid /\ xchg = "unsupported" =>
                   auth.outcome = "AuthenticationError"
            /\ valid /\ fetched /\ az.raised = "none" /\ ~az.result =>
                   auth.outcome = "AuthenticationError"
            /\ valid /\ xchg = "ioerror" => auth.outcome = "IOError"
            /\ valid /\ xchg \in {"form", "json"} /\ auth.env.profile = "ioerror"
                   => auth.outcome = "IOError"
            /\ valid /\ xchg = "no_token" => auth.outcome = "KeyError"
            /\ valid /\ xchg \in {"form", "json"} /\ auth.env.profile = "not_json"
                   => auth.outcome = "AssertionError"
            /\ valid /\ fetched /\ az.raised # "none" =>
                   auth.outcome = az.raised

\* a GitHub handshake that ended Authenticated
C1_Witness ==
    /\ AuthenticateCall("github")
    /\ auth.outcome = "return"
    /\ hs.phase = "Authenticated"
    /\ Len(auth.requests) = 3

\* C2 as stated: the stateful authenticate returns an Identity iff the
\* callback's oauth_token equals the request token of the continuation's
\* state and the signed access-token exchange succeeds.
C2_AsStated ==
    AuthenticateCall("stash") =>
        (auth.outcome = "return" <=>
            /\ Len(auth.state) = 2
            /\ auth.cb.oauth_token = auth.state[1]
            /\ auth.env.xchg = "form")

\* C2 as amended: the stateful authenticate returns an Identity iff the
\* state is a (token, secret) pair, the callback's oauth_token equals that
\* token, the signed access-token exchange succeeds and the signed whoami
\* fetch succeeds.
C2_StashAuthenticate ==
    AuthenticateCall("stash") =>
        /\ auth.outcome = "return" <=>
               /\ Len(auth.state) = 2
               /\ auth.cb.oauth_token = auth.state[1]
               /\ auth.env.xchg = "form"
               /\ auth.env.profile = "ok"
        /\ auth.outcome = "return" =>
               /\ hs.identity = auth.identity
               /\ auth.identity.team_type = "StashTeam"
               /\ Len(auth.requests) = 2
        /\ auth.outcome # "return" => auth.identity = NoIdentity

\* a Stash handshake that returned an Identity
C2_Witness ==
    /\ AuthenticateCall("stash")
    /\ auth.outcome = "return"
    /\ auth.cb.oauth_token = auth.state[1]
    /\ hs.phase = "Authenticated"

\* C9: when the membership round trip of GitHubOrganization.authorize gets
\* no answer, authorize returns False and raises nothing, and an authenticate
\* whose membership round trip gets no answer never returns an Identity.
C9_AuthorizeFailsClosed ==
    /\ (backend = "github" /\ auth.op = "authorize"
            /\ auth.env.orgs.kind = "ioerror") => auth.outcome = "False"
    /\ (AuthenticateCall("github") /\ auth.env.orgs.kind = "ioerror") =>
           /\ auth.outcome # "return"
           /\ hs.phase # "Authenticated"
           /\ "GET user/orgs" \in {auth.requests[i] : i \in 1..Len(auth.requests)}
                  => auth.outcome = "AuthenticationError"

\* authorize made its membership request, got no answer and returned False
C9_Witness ==
    /\ backend = "github"
    /\ auth.op = "authorize"
    /\ auth.env.orgs.kind = "ioerror"
    /\ auth.requests = <<"GET user/orgs">>
    /\ auth.outcome = "False"

C12_AsStated == used.identities <= 1

\* C12 as amended: the Team keeps no record of the states it has seen.  An
\* authenticate that presents again the state and callback which already
\* produced an Identity passes validation again and repeats the token
\* exchange, and it returns another Identity exactly when the provider
\* answers the repeated round trips as it answered the first ones.
C12_Replay ==
    (auth.op = "authenticate" /\ used.again) =>
        /\ auth.state = used.state
        /\ auth.cb = used.cb
        /\ Len(auth.requests) >= 1
        /\ auth.requests[1] = IF backend = "github"
                              THEN "POST login/oauth/access_token"
                              ELSE "POST oauth/access-token"
        /\ auth.outcome = "return" <=>
               /\ auth.env.xchg \in TokenAnswers
               /\ auth.env.profile = "ok"
               /\ backend = "github" =>
                      /\ AuthorizeOfResult.raised = "none"
                      /\ AuthorizeOfResult.result
        /\ auth.outcome = "return" =>
               /\ used.identities >= 2
               /\ auth.identity # NoIdentity
               /\ hs.identity = auth.identity

\* the same state and callback have produced two Identities
C12_Witness ==
    /\ auth.op = "authenticate"
    /\ used.again
    /\ auth.outcome = "return"
    /\ used.identities = 2

\* C13 as stated: when a Team operation has returned or raised, every
\* response stream it opened has been closed.
C13_AsStated == streams = 0

\* the configured server URL up to its last character that is no slash
ConfiguredPrefix ==
    LET n == CHOOSE m \in 0..Len(ConfiguredServerUrl) :
                 /\ m > 0 => ConfiguredServerUrl[m] # "/"
                 /\ \A i \in (m + 1)..Len(ConfiguredServerUrl) :
                        ConfiguredServerUrl[i] = "/"
    IN  SubSeq(ConfiguredServerUrl, 1, n)

\* the identifier begins with the configured server URL, slashes stripped
UnderConfiguredUrl(identifier) ==
    /\ Len(identifier) >= Len(ConfiguredPrefix)
    /\ \A i \in 1..Len(ConfiguredPrefix) : identifier[i] = ConfiguredPrefix[i]

\* C17 as stated: the stateful Team's authorize issues no request and
\* returns true exactly when the identifier begins with the configured
\* server URL, trailing slashes stripped.
C17_AsStated ==
    (backend = "stash" /\ auth.op = "authorize") =>
        /\ auth.requests = <<>>
        /\ auth.outcome = "True" <=> UnderConfiguredUrl(auth.identity.identifier)

\* C17 as amended: the stateful Team's authorize issues no request, raises
\* nothing, and returns true exactly when the identity's team type is this
\* Team's class (or a subclass) and its identifier begins with the
\* configured server URL, trailing slashes stripped.
C17_StashAuthorize ==
    (backend = "stash" /\ auth.op = "authorize") =>
        /\ auth.requests = <<>>
        /\ auth.outcome \in {"True", "False"}
        /\ auth.outcome = "True" <=>
               /\ auth.identity.team_type = "StashTeam"
               /\ UnderConfiguredUrl(auth.identity.identifier)

\* authorize rejected an identity of another Team class whose identifier
\* lies under the configured server URL
C17_Witness ==
    /\ backend = "stash"
    /\ auth.op = "authorize"
    /\ auth.identity.team_type = "GitHubOrganization"
    /\ UnderConfiguredUrl(auth.identity.identifier)
    /\ auth.outcome = "False"
    /\ auth.requests = <<>>

\* the callback does not pass validation against the state the caller kept:
\* code or state missing or state different from the nonce (stateless); the
\* state no pair, or oauth_token missing or different from the state's
\* token (stateful)
CallbackRejected ==
    IF backend = "github"
    THEN \/ auth.cb.code = Missing
         \/ auth.cb.state = Missing
         \/ auth.cb.state # auth.state[1]
    ELSE \/ auth.state = NoneState
         \/ Len(auth.state) # 2
         \/ auth.cb.oauth_token = Missing
         \/ auth.cb.oauth_token # auth.state[1]

\* C18 as stated: an authenticate whose callback does not pass validation
\* raises AuthenticationError and has issued no request.
C18_AsStated ==
    (auth.op = "authenticate" /\ CallbackRejected) =>
        /\ auth.outcome = "AuthenticationError"
        /\ auth.requests = <<>>

\* C18 as amended: an authenticate whose callback does not pass validation
\* has issued no request and has raised AuthenticationError, or TypeError
\* when the stateful family's state is a value that cannot be unpacked;
\* an authenticate that has issued a request had its callback validated.
C18_ValidationFirst ==
    auth.op = "authenticate" =>
        /\ CallbackRejected =>
               /\ auth.requests = <<>>
               /\ auth.identity = NoIdentity
               /\ auth.outcome =
                      IF backend = "stash" /\ auth.state = NoneState
                      THEN "TypeError" ELSE "AuthenticationError"
        /\ auth.requests # <<>> => ~CallbackRejected

\* a callback carrying another request token than the state's was turned
\* down before any request, although the provider would have answered
C18_Witness ==
    /\ backend = "stash"
    /\ auth.op = "authenticate"
    /\ Len(auth.state) = 2
    /\ auth.cb.oauth_token \in RequestTokens \ {auth.state[1]}
    /\ auth.env.xchg = "form"
    /\ auth.outcome = "AuthenticationError"
    /\ auth.requests = <<>>

\* C19: an Identity returned by StashTeam.authenticate has the Team's class
\* as team type and an identifier under the Team's server URL; authorize of
\* that Team returns true for it and the guard of a StashKeyStore composed
\* with the Team lets it through (a listing sends its first request).  An
\* Identity of a StashTeam whose server URL is no prefix match is turned
\* down by authorize and by the guard (no request is sent).
C19_IdentityAccepted ==
    /\ (AuthenticateCall("stash") /\ auth.outcome = "return") =>
           /\ auth.identity.team_type = "StashTeam"
           /\ UnderConfiguredUrl(auth.identity.identifier)
           /\ StashTeam_authorize(auth.identity).result
           /\ Compatible(auth.identity)
           /\ request_list(auth.identity, <<>>, pageSize) # <<>>
    /\ (backend = "stash" /\ auth.op = "authorize"
            /\ auth.identity.team_type = "StashTeam"
            /\ ~UnderConfiguredUrl(auth.identity.identifier)) =>
           /\ auth.outcome = "False"
           /\ ~Compatible(auth.identity)
           /\ request_list(auth.identity, <<>>, pageSize) = <<>>

\* authenticate returned the Identity of the configured installation, which
\* the store's guard accepts
C19_Witness ==
    /\ AuthenticateCall("stash")
    /\ auth.outcome = "return"
    /\ auth.identity = StashIdentityAt(server_url)
    /\ Compatible(auth.identity)
    /\ ~Compatible(StashIdentityAt(OtherServerUrl))

(***************************************************************************)
(* Properties of the KeyStore calls (Spec).                                *)
(***************************************************************************)
\* the identity matches the store's configuration: same team kind and, for
\* the self-hosted provider, an identifier under the store's server URL
MatchesStore(identity) ==
    IF backend = "github" THEN identity.team_type = "GitHubOrganization"
    ELSE /\ identity.team_type = "StashTeam"
         /\ StartsWith(identity.identifier, server_url)

\* the latest call is op, by a matching identity, with every round trip
\* answered
StoreCall(op) ==
    /\ last.op = op
    /\ MatchesStore(last.identity)
    /\ last.failAt = 0

\* the keys of the well-formed entries of a listing
ListingKeys(rem) ==
    {KeyId(ParseLine(rem[i].text)) :
        i \in {j \in 1..Len(rem) : WellFormed(rem[j].text)}}

\* list_keys of the store on a listing
ListKeysOn(identity, rem) ==
    IF backend = "github" THEN GitHubKeyStore_list_keys(identity, rem)
    ELSE StashKeyStore_list_keys(identity, rem, pageSize)

FirstMatch(rem, key) ==
    CHOOSE i \in 1..Len(rem) :
        /\ WellFormed(rem[i].text) /\ KeyEq(ParseLine(rem[i].text), key)
        /\ \A j \in 1..(i - 1) :
               ~(WellFormed(rem[j].text) /\ KeyEq(ParseLine(rem[j].text), key))

RemoveAt(rem, i) == SubSeq(rem, 1, i - 1) \o SubSeq(rem, i + 1, Len(rem))

Deletes(reqs) == {i \in 1..Len(reqs) : reqs[i].method = "DELETE"}

\* C3 as stated: for a matching identity and a key not on file, list_keys
\* after register(identity, key) returns what list_keys returned before
\* it, plus exactly that key.
C3_AsStated ==
    (StoreCall("register") /\ ~OnFile(last.pre, last.key)) =>
        LET before == ListKeysOn(last.identity, last.pre)
            after == ListKeysOn(last.identity, last.post)
        IN  /\ before.outcome = "return"
            /\ after.outcome = "return"
            /\ after.result = before.result \cup {KeyId(last.key)}

\* C4 as stated: register of a key that is on file fails with
\* DuplicatePublicKeyError and leaves the remote listing unchanged.
C4_AsStated ==
    (StoreCall("register") /\ OnFile(last.pre, last.key)) =>
        /\ last.outcome = "DuplicatePublicKeyError"
        /\ last.post = last.pre

\* C5 as stated: deregister of a key that is on file completes without
\* error and removes exactly the first entry, in listing order, whose parsed
\* value equals the key on (algorithm, material), by one DELETE of its id.
C5_AsStated ==
    (StoreCall("deregister") /\ OnFile(last.pre, last.key)) =>
        LET i == FirstMatch(last.pre, last.key)
        IN  /\ last.outcome = "return"
            /\ last.post = RemoveAt(last.pre, i)
            /\ Cardinality(Deletes(last.requests)) = 1
            /\ last.requests[Len(last.requests)]
                   = Req("DELETE", "keys/id", last.pre[i].id)

\* C6 as stated: deregister of a key no stored entry equals raises nothing,
\* issues no DELETE and leaves the listing as it was.
C6_AsStated ==
    (StoreCall("deregister") /\ ~OnFile(last.pre, last.key)) =>
        /\ last.outcome = "return"
        /\ Deletes(last.requests) = {}
        /\ last.post = last.pre

\* C7: list_keys of the paginated provider issues one GET per page, the
\* first at cursor 0 and each later one at the nextPageStart of the answer
\* before it, none after the page with isLastPage, and returns the keys of
\* the (parsable) entries of all the pages, which together are the listing.
C7_Pagination ==
    (backend = "stash" /\ StoreCall("list_keys")) =>
        LET reqs == last.requests
            page(i) == ProviderPage(last.pre, pageSize, reqs[i].arg)
            entries == UNION {{page(i).values[j] : j \in 1..Len(page(i).values)} :
                                 i \in 1..Len(reqs)}
        IN  /\ last.outcome = "return"
            /\ Len(reqs) >= 1
            /\ \A i \in 1..Len(reqs) :
                   reqs[i].method = "GET" /\ reqs[i].url = "keys?start"
            /\ reqs[1].arg = 0
            /\ \A i \in 1..(Len(reqs) - 1) :
                   /\ ~page(i).isLastPage
                   /\ reqs[i + 1].arg = page(i).nextPageStart
            /\ page(Len(reqs)).isLastPage
            /\ entries = {last.pre[i] : i \in 1..Len(last.pre)}
            /\ last.result =
                   {KeyId(ParseLine(e.text)) : e \in {x \in entries : WellFormed(x.text)}}
            /\ last.post = last.pre

\* a listing of three pages, every one fetched once
C7_Witness ==
    /\ backend = "stash"
    /\ StoreCall("list_keys")
    /\ Len(last.requests) = 3
    /\ Len(last.pre) = 3
    /\ Cardinality(last.result) = 2

\* C8 as stated: on every backend list_keys returns exactly the keys of the
\* well-formed entries and raises nothing, whatever entries do not parse.
C8_AsStated ==
    StoreCall("list_keys") =>
        /\ last.outcome = "return"
        /\ last.result = ListingKeys(last.pre)

\* C10 as stated: with an identity that does not match the store's
\* configuration, register, list_keys and deregister issue no request,
\* change nothing at the provider and return nothing.
C10_AsStated ==
    (last.op # "none" /\ ~MatchesStore(last.identity)) =>
        /\ last.requests = <<>>
        /\ last.post = last.pre
        /\ last.outcome = "return"
        /\ last.result = {}

\* the first entry, in listing order, that does not parse; 0 if all parse
FirstMalformed(rem) ==
    LET bad == {i \in 1..Len(rem) : ~WellFormed(rem[i].text)}
    IN  IF bad = {} THEN 0 ELSE CHOOSE i \in bad : \A j \in bad : i <= j

\* the GET requests among the requests of a call
Gets(reqs) == {i \in 1..Len(reqs) : reqs[i].method = "GET"}

\* the pages a scan has to fetch to reach the i-th entry
PagesUpTo(i) ==
    IF backend = "github" THEN 1 ELSE (i + pageSize - 1) \div pageSize

\* C20 as stated: deregister by a matching identity, of a key on file, with
\* an entry on file that does not parse.  When the malformed entry precedes
\* the matching one, deregister raises the parse failure, issues no DELETE
\* and leaves the listing unchanged; when the matching entry precedes the
\* malformed one, it requests no page beyond the one holding the match,
\* issues exactly one DELETE, of the matching entry's id, and raises nothing.
C20_AsStated ==
    (StoreCall("deregister") /\ OnFile(last.pre, last.key)
         /\ FirstMalformed(last.pre) > 0) =>
        LET i == FirstMatch(last.pre, last.key)
            m == FirstMalformed(last.pre)
        IN  /\ m < i =>
                   /\ last.outcome = "ParseError"
                   /\ Deletes(last.requests) = {}
                   /\ last.post = last.pre
            /\ i < m =>
                   /\ last.outcome = "return"
                   /\ Cardinality(Gets(last.requests)) = PagesUpTo(i)
                   /\ Cardinality(Deletes(last.requests)) = 1
                   /\ last.requests[Len(last.requests)]
                          = Req("DELETE", "keys/id", last.pre[i].id)
                   /\ last.post = RemoveAt(last.pre, i)

(***************************************************************************)
(* Properties of a listing with calls in between (SpecRace).               *)
(***************************************************************************)
\* the finished listing misses a key that was on file all through it
MissedKey == \E k \in scan.kept : k \notin scan.got

\* C14 as stated: when a deregister by a matching identity, of a key whose
\* entry lies in the pages already listed, has run between two page
\* requests of a listing while a key on file lay just beyond the cursor,
\* and no other client has changed the listing, the finished listing misses
\* a key that was on file during the whole listing.
C14_AsStated ==
    (scan.phase = "done" /\ scan.raced /\ ~scan.removed) => MissedKey

(***************************************************************************)
(* Properties of calls sharing one instance (SpecShared).                  *)
(***************************************************************************)
\* the Identity that belongs to caller c's own principal
OwnIdentity(c) == IdentityFor(TeamConfig, TokenOf(c))

\* C15: under every interleaving of two authenticate calls on one Team, the
\* instance's attributes stay what __init__ set, the token a suspended call
\* holds is the one the provider gave to that call, and the Identity a call
\* builds carries its own principal's identifier and access token, never
\* the other caller's.
C15_NoSharedState ==
    /\ team = TeamConfig
    /\ \A c \in Callers :
           /\ calls[c].pc = "profile" => calls[c].access_token = TokenOf(c)
           /\ calls[c].pc \in {"membership", "returned"} =>
                  /\ calls[c].identity = OwnIdentity(c)
                  /\ \A d \in Callers \ {c} :
                         /\ calls[c].identity.access_token.token # TokenOf(d)
                         /\ calls[c].identity.identifier # OwnIdentity(d).identifier
           /\ calls[c].pc \in {"idle", "exchange", "profile", "raised"} =>
                  calls[c].identity = NoIdentity

\* one caller has its Identity while the other caller's call is suspended
\* before its profile round trip, holding its own token
C15_Witness ==
    /\ calls["c1"].pc = "returned"
    /\ calls["c1"].identity = OwnIdentity("c1")
    /\ calls["c2"].pc = "profile"
    /\ calls["c2"].access_token = TokenOf("c2")

(***************************************************************************)
(* Properties of the round trips of every operation (SpecIO).              *)
(***************************************************************************)
\* no element of the sequence occurs twice
NoRepeat(reqs) ==
    \A i, j \in 1..Len(reqs) : i # j => reqs[i] # reqs[j]

\* C16: no operation sends a request twice, and a round trip that gets no
\* answer is the last one of its operation: a KeyStore call, authenticate
\* and request_authentication raise IOError at once; authorize returns
\* False instead, which makes an authenticate that was waiting for it raise
\* AuthenticationError, also without a further request.
C16_NoRetry ==
    /\ last.op # "none" =>
           /\ NoRepeat(last.requests)
           /\ last.failAt > 0 =>
                  /\ last.outcome = "IOError"
                  /\ Len(last.requests) = last.failAt
                  /\ last.result = {}
    /\ auth.op # "none" => NoRepeat(auth.requests)
    /\ (auth.op = "request_authentication" /\ auth.outcome = "IOError") =>
           Len(auth.requests) = 1
    /\ auth.op = "authenticate" =>
           /\ (Len(auth.requests) >= 1 /\ auth.env.xchg = "ioerror") =>
                  /\ Len(auth.requests) = 1
                  /\ auth.outcome = "IOError"
           /\ (Len(auth.requests) >= 2 /\ auth.env.profile = "ioerror") =>
                  /\ Len(auth.requests) = 2
                  /\ auth.outcome = "IOError"
           /\ (Len(auth.requests) >= 3 /\ auth.env.orgs.kind = "ioerror") =>
                  /\ Len(auth.requests) = 3
                  /\ auth.outcome = "AuthenticationError"
    /\ (auth.op = "authorize" /\ auth.requests # <<>>
            /\ auth.env.orgs.kind = "ioerror") =>
           /\ Len(auth.requests) = 1
           /\ auth.outcome = "False"

\* a listing of three pages whose second round trip got no answer: two
\* requests were sent and the call raised
C16_Witness ==
    /\ last.op = "list_keys"
    /\ Len(last.pre) = 3
    /\ pageSize = 1
    /\ last.failAt = 2
    /\ Len(last.requests) = 2
    /\ last.outcome = "IOError"

====
